---------------------------- MODULE Spec2Model ----------------------------
(***************************************************************************)
(* Snapshot merge and reconciliation of the Expense-Tracker portfolio      *)
(* repository: PortfolioRepository (src/src/database/repository.py), the   *)
(* summary aggregator (src/src/services/portfolio.py), the save handler   *)
(* of the crypto page (src/app/pages/6_Crypto.py) and the handlers of the  *)
(* Upload page (src/app/pages/3_Upload.py).                                *)
(*                                                                         *)
(* A date is the integer yyyymmdd, so that the order of integers is the    *)
(* order of dates.  A holdings row carries the columns the merge and the   *)
(* aggregator read: snapshot_date, type, current_value, invested_value,    *)
(* unrealized_pl.  The surrogate key id is read by no code of the          *)
(* repository, so the table is the bag (multiset) of its rows.  Money is   *)
(* in whole units.                                                         *)
(***************************************************************************)
EXTENDS Integers, Sequences, FiniteSets, Bags

VARIABLES
    holdings,     \* table holdings: a bag of rows
    snapshots,    \* table snapshots: a set of rows, snapshot_date unique
    upload_logs,  \* table upload_logs: the number of rows
    pc,           \* position of the save handler: "idle" or "merged"
    call,         \* arguments and result of the last merge call
    pending,      \* a failed merge awaiting its replay (history variable)
    faults,       \* the number of merge calls that raised (history variable)
    found,        \* the last find_snapshot_in_month query and what it returned
    net_at,       \* handler position at which the last external call was
                  \* issued (history variable)
    error,        \* the exception the last handler reported, "none" if none
    op,           \* the last repository operation called on its own, its
                  \* arguments and what it returned
    merged_dates, \* the new_date of every merge call that returned since
                  \* the month's or all data was last deleted from the
                  \* Upload page (history variable)
    base_logs     \* the number of upload_logs rows at the start

vars == <<holdings, snapshots, upload_logs, pc, call, pending, faults, found,
          net_at, error, op, merged_dates, base_logs>>

----------------------------------------------------------------------------
\* Bounds of the model

\* longest batch (DataFrame) handed to a merge
MaxBatch == 2
\* most upload_logs rows; every completed save handler appends one
MaxLogs == 2
\* most merge calls that raise in one behaviour
MaxFaults == 1
\* most repository operations called on their own in one behaviour
MaxOps == 1

----------------------------------------------------------------------------
\* Types and input domains

HoldingType == {"stock", "mutual_fund", "us_stock", "crypto"}

None == 0

\* 2024-12-03, 2024-12-15, 2025-01-02, 2025-01-15
Dates == {20241203, 20241215, 20250102, 20250115}

\* rows a parser or scanner can hand over (type, current_value,
\* invested_value, unrealized_pl)
ValidRows ==
    { [type |-> "stock",       current_value |-> 1000, invested_value |-> 900, unrealized_pl |-> 100],
      [type |-> "crypto",      current_value |-> 500,  invested_value |-> 0,   unrealized_pl |-> 0] }

\* a row whose type string is no member of the HoldingType enum
BadRows ==
    { [type |-> "bond", current_value |-> 50, invested_value |-> 50, unrealized_pl |-> 0] }

SeqsUpTo(S, n) == UNION { [1..k -> S] : k \in 0..n }

Batches == SeqsUpTo(ValidRows, MaxBatch)

\* batches with exactly one row of an unknown type
BadBatches == { b \in SeqsUpTo(ValidRows \cup BadRows, MaxBatch) :
                  \E i \in 1..Len(b) : b[i] \in BadRows }

\* the upload_types lists a caller passes
UploadTypeSets == SUBSET {"stock", "crypto"}

----------------------------------------------------------------------------
\* Helpers

Max(a, b) == IF a >= b THEN a ELSE b

RECURSIVE SetMax(_)
SetMax(S) == IF S = {} THEN 0
             ELSE LET x == CHOOSE x \in S : TRUE
                  IN  Max(x, SetMax(S \ {x}))

\* column sum over a bag of rows
RECURSIVE SumKeys(_, _, _)
SumKeys(B, keys, col) ==
    IF keys = {} THEN 0
    ELSE LET r == CHOOSE r \in keys : TRUE
         IN  r[col] * B[r] + SumKeys(B, keys \ {r}, col)

SumCol(B, col) == SumKeys(B, DOMAIN B, col)

\* a bag restricted to some of its rows: the result of a select ... where
Where(B, rows) == [k \in rows |-> B[k]]

\* two dates of one calendar month
SameMonth(a, b) == a \div 100 = b \div 100

SeqTypes(df) == { df[i].type : i \in 1..Len(df) }

HoldingsAt(H, d) == Where(H, { h \in DOMAIN H : h.snapshot_date = d })

\* the dates present among the holdings
HoldingDates(H) == { h.snapshot_date : h \in DOMAIN H }

\* the rows of a frame stamped with a date, as a bag
Stamp(row, d) == [snapshot_date  |-> d,
                  type           |-> row.type,
                  current_value  |-> row.current_value,
                  invested_value |-> row.invested_value,
                  unrealized_pl  |-> row.unrealized_pl]

FrameBag(df, d) ==
    [k \in { Stamp(df[i], d) : i \in 1..Len(df) } |->
       Cardinality({ i \in 1..Len(df) : Stamp(df[i], d) = k })]

SnapshotDates(S) == { s.snapshot_date : s \in S }


----------------------------------------------------------------------------
\* PortfolioRepository: the store operations, one commit each

\* HoldingType(row["type"]) raises ValueError for a string outside the enum
save_holdings_raises(holdings_df) ==
    \E i \in 1..Len(holdings_df) : holdings_df[i].type \notin HoldingType

\* mutant: the rows are built but never added to the session
save_holdings_none(H, holdings_df, snapshot_date) == H

\* save_holdings: every row of the frame inserted with the given date;
\* nothing is inserted when building a row raises (the commit is not reached)
save_holdings(H, holdings_df, snapshot_date) ==
    IF save_holdings_raises(holdings_df) THEN H
    ELSE H (+) FrameBag(holdings_df, snapshot_date)

\* the latest date among the rows of a type (func.max(snapshot_date))
latest_date(H, holding_type) ==
    SetMax({ h.snapshot_date : h \in { g \in DOMAIN H : g.type = holding_type } })

\* mutant: without a date, the rows of the latest date of the whole table
get_holdings_latest_snapshot(H, snapshot_date) ==
    IF snapshot_date # None THEN HoldingsAt(H, snapshot_date)
    ELSE HoldingsAt(H, SetMax(HoldingDates(H)))

\* get_holdings: with a date the rows stamped with it; without one, for each
\* type of the enum the rows of that type at the type's latest date
get_holdings(H, snapshot_date) ==
    IF snapshot_date # None THEN HoldingsAt(H, snapshot_date)
    ELSE Where(H, { h \in DOMAIN H :
                      /\ h.type \in HoldingType
                      /\ h.snapshot_date = latest_date(H, h.type) })

\* mutant: the rows already stored are not read back
get_holdings_df_empty(H, snapshot_date) == EmptyBag

\* get_holdings_df: the same rows as a frame (empty frame when none)
get_holdings_df(H, snapshot_date) == get_holdings(H, snapshot_date)

\* save_snapshot raises IntegrityError on the unique snapshot_date
save_snapshot_raises(S, snapshot_data) ==
    snapshot_data.snapshot_date \in SnapshotDates(S)

\* mutant: the column snapshot_date is not unique
save_snapshot_no_unique(S, snapshot_data) == S \cup {snapshot_data}

save_snapshot(S, snapshot_data) ==
    IF save_snapshot_raises(S, snapshot_data) THEN S ELSE S \cup {snapshot_data}

snapshot_exists(S, snapshot_date) == snapshot_date \in SnapshotDates(S)

\* the snapshot row alone is deleted (merge, lines 609-616)
delete_snapshot_row(S, snapshot_date) ==
    { s \in S : s.snapshot_date # snapshot_date }

\* mutant: the holdings of the date are left in place
delete_snapshot_holdings_keep(H, snapshot_date) == H

\* delete_snapshot: the holdings of the date, then the snapshot row
delete_snapshot_holdings(H, snapshot_date) ==
    Where(H, { h \in DOMAIN H : h.snapshot_date # snapshot_date })

\* mutant: every row of the date is deleted, whatever its type
delete_holdings_by_type_all(H, snapshot_date, holding_types) ==
    Where(H, { h \in DOMAIN H : h.snapshot_date # snapshot_date })

\* delete_holdings_by_type: rows of the date whose type is listed
delete_holdings_by_type(H, snapshot_date, holding_types) ==
    Where(H, { h \in DOMAIN H : ~(h.snapshot_date = snapshot_date
                                   /\ h.type \in holding_types) })

\* mutant: every row of the date is counted
delete_holdings_by_type_count_date(H, snapshot_date, holding_types) ==
    BagCardinality(Where(H, { h \in DOMAIN H : h.snapshot_date = snapshot_date }))

delete_holdings_by_type_count(H, snapshot_date, holding_types) ==
    BagCardinality(Where(H, { h \in DOMAIN H : h.snapshot_date = snapshot_date
                                                /\ h.type \in holding_types }))

\* find_snapshot_in_month: bounds of the calendar month of target_date
first_of_month(target_date) == (target_date \div 100) * 100 + 1

\* mutant: the year is not advanced after December
first_of_next_month_same_year(target_date) ==
    LET year  == target_date \div 10000
        month == (target_date \div 100) % 100
    IN  IF month = 12 THEN year * 10000 + 100 + 1
        ELSE year * 10000 + (month + 1) * 100 + 1

\* mutant: the upper bound is the first day of the month after next
first_of_next_month_wide(target_date) ==
    LET year  == target_date \div 10000
        month == (target_date \div 100) % 100
    IN  IF month >= 11 THEN (year + 1) * 10000 + (month - 10) * 100 + 1
        ELSE year * 10000 + (month + 2) * 100 + 1

first_of_next_month(target_date) ==
    LET year  == target_date \div 10000
        month == (target_date \div 100) % 100
    IN  IF month = 12 THEN (year + 1) * 10000 + 100 + 1
        ELSE year * 10000 + (month + 1) * 100 + 1

\* mutant: only a snapshot of the very date is found
find_snapshot_in_month_exact(S, target_date) ==
    IF target_date \in SnapshotDates(S) THEN target_date ELSE None

\* mutant: the earliest snapshot of the month is returned
find_snapshot_in_month_first(S, target_date) ==
    LET inMonth == { d \in SnapshotDates(S) : SameMonth(d, target_date) }
    IN  IF inMonth = {} THEN None
        ELSE CHOOSE d \in inMonth : \A e \in inMonth : d <= e

\* the latest snapshot date of the month, None when the month has none
find_snapshot_in_month(S, target_date) ==
    LET inMonth == { d \in SnapshotDates(S) :
                       /\ d >= first_of_month(target_date)
                       /\ d < first_of_next_month(target_date) }
    IN  IF inMonth = {} THEN None ELSE SetMax(inMonth)

\* migrate_holdings_to_new_date: rows at old_date of an excluded type are
\* deleted, the others are re-dated; an empty exclude list excludes nothing
\* mutant: the test on the type is inverted
migrate_excluded_inverted(h, exclude_types) ==
    exclude_types # {} /\ h.type \notin exclude_types

migrate_excluded(h, exclude_types) ==
    exclude_types # {} /\ h.type \in exclude_types

\* mutant: re-dating also resets the profit of the row
ReDate_zero_pl(B, old_date, new_date) ==
    [k \in { [h EXCEPT !.snapshot_date = new_date, !.unrealized_pl = 0] :
               h \in DOMAIN B } |->
       BagCardinality(Where(B, { h \in DOMAIN B :
                                  [h EXCEPT !.snapshot_date = new_date,
                                            !.unrealized_pl = 0] = k }))]

\* the rows of a bag, all stamped old_date, stamped new_date instead
ReDate(B, old_date, new_date) ==
    [k \in { [h EXCEPT !.snapshot_date = new_date] : h \in DOMAIN B } |->
       B[[k EXCEPT !.snapshot_date = old_date]]]

\* mutant: every row at old_date is deleted, none is re-dated
migrate_holdings_to_new_date_drop(H, old_date, new_date, exclude_types) ==
    Where(H, { h \in DOMAIN H : h.snapshot_date # old_date })

migrate_holdings_to_new_date(H, old_date, new_date, exclude_types) ==
    Where(H, { h \in DOMAIN H : h.snapshot_date # old_date })
      (+) ReDate(Where(H, { h \in DOMAIN H :
                              /\ h.snapshot_date = old_date
                              /\ ~migrate_excluded(h, exclude_types) }),
                 old_date, new_date)

\* mutant: the deleted rows are counted too
migrated_count_all(H, old_date, exclude_types) ==
    BagCardinality(Where(H, { h \in DOMAIN H : h.snapshot_date = old_date }))

migrated_count(H, old_date, exclude_types) ==
    BagCardinality(Where(H, { h \in DOMAIN H :
                                /\ h.snapshot_date = old_date
                                /\ ~migrate_excluded(h, exclude_types) }))

----------------------------------------------------------------------------
\* merge_holdings_within_month.  Each store operation it calls commits on
\* its own, so a call that raises at step k leaves steps 1..k-1 committed.
\*   step 1  migrate_holdings_to_new_date  or  delete_holdings_by_type
\*   step 2  delete_snapshot               or  delete of the snapshot row
\*   step 3  save_holdings
\* fail_at = 0: no store error; fail_at = k: step k raises a store error.

\* mutant: the date of the upload always wins
merge_final_date_new(S, new_date) == new_date

\* mutant: the earlier of the two dates wins
merge_final_date_min(S, new_date) ==
    LET old_date == find_snapshot_in_month(S, new_date)
    IN  IF old_date # None /\ old_date < new_date THEN old_date ELSE new_date

merge_final_date(S, new_date) ==
    LET old_date == find_snapshot_in_month(S, new_date)
    IN  IF old_date # None THEN Max(old_date, new_date) ELSE new_date

\* "new": no snapshot in the month; "migrate": old_date # final_date;
\* "replace": old_date = final_date
merge_branch(S, new_date) ==
    LET old_date == find_snapshot_in_month(S, new_date)
    IN  IF old_date = None THEN "new"
        ELSE IF old_date # merge_final_date(S, new_date) THEN "migrate"
        ELSE "replace"

merge_migrated(H, S, new_date, upload_types) ==
    IF merge_branch(S, new_date) = "migrate"
    THEN migrated_count(H, find_snapshot_in_month(S, new_date), upload_types)
    ELSE 0

\* mutant: the rows of the uploaded types at old_date == final_date stay
merge_step1_keep(H, S, new_date, upload_types) ==
    IF merge_branch(S, new_date) = "migrate"
    THEN migrate_holdings_to_new_date(H, find_snapshot_in_month(S, new_date),
                                      merge_final_date(S, new_date), upload_types)
    ELSE H

\* holdings after step 1
merge_step1(H, S, new_date, upload_types) ==
    LET old_date   == find_snapshot_in_month(S, new_date)
        final_date == merge_final_date(S, new_date)
        branch     == merge_branch(S, new_date)
    IN  IF branch = "migrate"
        THEN migrate_holdings_to_new_date(H, old_date, final_date, upload_types)
        ELSE IF branch = "replace"
        THEN delete_holdings_by_type(H, old_date, upload_types)
        ELSE H

\* mutant: delete_snapshot is used in the replace branch too
merge_step2_holdings_all(H, S, new_date, upload_types) ==
    IF merge_branch(S, new_date) # "new"
    THEN delete_snapshot_holdings(merge_step1(H, S, new_date, upload_types),
                                  find_snapshot_in_month(S, new_date))
    ELSE merge_step1(H, S, new_date, upload_types)

\* holdings after step 2 (delete_snapshot also deletes the rows at old_date)
merge_step2_holdings(H, S, new_date, upload_types) ==
    IF merge_branch(S, new_date) = "migrate"
    THEN delete_snapshot_holdings(merge_step1(H, S, new_date, upload_types),
                                  find_snapshot_in_month(S, new_date))
    ELSE merge_step1(H, S, new_date, upload_types)

\* mutant: the stale snapshot row is kept
merge_step2_snapshots_stale(S, new_date) == S

\* snapshots after step 2
merge_step2_snapshots(S, new_date) ==
    IF merge_branch(S, new_date) = "new" THEN S
    ELSE delete_snapshot_row(S, find_snapshot_in_month(S, new_date))

\* the step at which the call raises: 0 when it returns
merge_raises_at(new_holdings_df, fail_at) ==
    IF fail_at # 0 THEN fail_at
    ELSE IF save_holdings_raises(new_holdings_df) THEN 3 ELSE 0

merge_holdings(H, S, new_date, new_holdings_df, upload_types, fail_at) ==
    LET r == merge_raises_at(new_holdings_df, fail_at)
    IN  IF r = 1 THEN H
        ELSE IF r = 2 THEN merge_step1(H, S, new_date, upload_types)
        ELSE IF r = 3 THEN merge_step2_holdings(H, S, new_date, upload_types)
        ELSE save_holdings(merge_step2_holdings(H, S, new_date, upload_types),
                           new_holdings_df, merge_final_date(S, new_date))

\* mutant: the merge also writes a snapshot row for the batch
merge_snapshots_writes(S, new_date, new_holdings_df, fail_at) ==
    merge_step2_snapshots(S, new_date)
      \cup { [snapshot_date |-> merge_final_date(S, new_date),
               total_value   |-> 0] }

merge_snapshots(S, new_date, new_holdings_df, fail_at) ==
    LET r == merge_raises_at(new_holdings_df, fail_at)
    IN  IF r \in {1, 2} THEN S ELSE merge_step2_snapshots(S, new_date)

\* the steps a store error can hit: the "new" branch has step 3 only
FailPoints(S, new_date) ==
    IF merge_branch(S, new_date) = "new" THEN {3} ELSE {1, 2, 3}

----------------------------------------------------------------------------
\* calculate_portfolio_summary: a dict without the key crypto_value.
\* total_pl_pct is kept exact as <<numerator, denominator>>.

\* holdings_df[holdings_df['type'] == t]
OfType(holdings_df, t) ==
    Where(holdings_df, { h \in DOMAIN holdings_df : h.type = t })

\* mutant: total_pl recomputed as total_value - total_invested
calculate_portfolio_summary_pl_diff(holdings_df) ==
    LET total_value    == SumCol(holdings_df, "current_value")
        total_invested == SumCol(holdings_df, "invested_value")
        total_pl       == total_value - total_invested
    IN  [total_value    |-> total_value,
         total_invested |-> total_invested,
         total_pl       |-> total_pl,
         total_pl_pct   |-> IF total_invested > 0
                            THEN <<total_pl * 100, total_invested>>
                            ELSE <<0, 1>>,
         stocks_value    |-> SumCol(OfType(holdings_df, "stock"), "current_value"),
         mf_value        |-> SumCol(OfType(holdings_df, "mutual_fund"), "current_value"),
         us_stocks_value |-> SumCol(OfType(holdings_df, "us_stock"), "current_value")]

calculate_portfolio_summary(holdings_df) ==
    IF holdings_df = EmptyBag
    THEN [total_value |-> 0, total_invested |-> 0, total_pl |-> 0,
          total_pl_pct |-> <<0, 1>>,
          stocks_value |-> 0, mf_value |-> 0, us_stocks_value |-> 0]
    ELSE LET total_invested == SumCol(holdings_df, "invested_value")
             total_pl       == SumCol(holdings_df, "unrealized_pl")
         IN  [total_value    |-> SumCol(holdings_df, "current_value"),
              total_invested |-> total_invested,
              total_pl       |-> total_pl,
              total_pl_pct   |-> IF total_invested > 0
                                 THEN <<total_pl * 100, total_invested>>
                                 ELSE <<0, 1>>,
              stocks_value    |-> SumCol(OfType(holdings_df, "stock"), "current_value"),
              mf_value        |-> SumCol(OfType(holdings_df, "mutual_fund"), "current_value"),
              us_stocks_value |-> SumCol(OfType(holdings_df, "us_stock"), "current_value")]

\* dict.get(key, default)
DictGet(d, key, default) == IF key \in DOMAIN d THEN d[key] ELSE default

\* mutant: without benchmark values the totals are left at zero
crypto_snapshot_data_needs_benchmarks(H, final_date, nifty, sensex) ==
    LET summary == calculate_portfolio_summary(get_holdings_df(H, final_date))
        known   == nifty # None /\ sensex # None
    IN  [snapshot_date    |-> final_date,
         total_value      |-> IF known THEN summary.total_value ELSE 0,
         stocks_value     |-> summary.stocks_value,
         mf_value         |-> summary.mf_value,
         us_stocks_value  |-> summary.us_stocks_value,
         crypto_value     |-> DictGet(summary, "crypto_value", 0),
         total_invested   |-> IF known THEN summary.total_invested ELSE 0,
         total_pl         |-> IF known THEN summary.total_pl ELSE 0,
         total_pl_pct     |-> summary.total_pl_pct,
         benchmark_nifty  |-> nifty,
         benchmark_sensex |-> sensex]

\* the snapshot row the crypto page builds after a merge
crypto_snapshot_data(H, final_date, nifty, sensex) ==
    LET summary == calculate_portfolio_summary(get_holdings_df(H, final_date))
    IN  [snapshot_date    |-> final_date,
         total_value      |-> summary.total_value,
         stocks_value     |-> summary.stocks_value,
         mf_value         |-> summary.mf_value,
         us_stocks_value  |-> summary.us_stocks_value,
         crypto_value     |-> DictGet(summary, "crypto_value", 0),
         total_invested   |-> summary.total_invested,
         total_pl         |-> summary.total_pl,
         total_pl_pct     |-> summary.total_pl_pct,
         benchmark_nifty  |-> nifty,
         benchmark_sensex |-> sensex]

\* summarize-and-save handoff on the snapshots table
handoff_snapshots(H, S, final_date, nifty, sensex) ==
    save_snapshot(S, crypto_snapshot_data(H, final_date, nifty, sensex))

----------------------------------------------------------------------------
\* Views of the store

\* the snapshots without the benchmark columns
Totals(S) ==
    { [snapshot_date  |-> s.snapshot_date,
       total_value    |-> s.total_value,
       total_invested |-> s.total_invested,
       total_pl       |-> s.total_pl] : s \in S }

----------------------------------------------------------------------------
\* The state machine: the "Save Crypto Positions" handler of the crypto page,
\* generalised to any batch and any upload_types, in two positions:
\* the merge call, then the summarize-and-save handoff.

NoCall == [new_date |-> None, df |-> <<>>, types |-> {}, old_date |-> None,
           final_date |-> None, migrated |-> 0, new_count |-> 0,
           deleted |-> 0, reupload |-> FALSE]

NoPending == [stage |-> "none"]

NoQuery == [target |-> None, result |-> None]

NoOp == [name |-> "none", n |-> 0]

Init ==
    /\ holdings = EmptyBag
    /\ snapshots = {}
    /\ upload_logs = 0
    /\ pc = "idle"
    /\ call = NoCall
    /\ pending = NoPending
    /\ faults = 0
    /\ found = NoQuery
    /\ net_at = "none"
    /\ error = "none"
    /\ op = NoOp
    /\ merged_dates = {}
    /\ base_logs = 0

SameArgs(c, new_date, df, types) ==
    c.new_date = new_date /\ c.df = df /\ c.types = types

\* the covered-type rows the merge finds at the month's snapshot date
Superseded(H, S, new_date, types) ==
    Where(H, { h \in DOMAIN H :
                 /\ h.snapshot_date = find_snapshot_in_month(S, new_date)
                 /\ h.type \in types })

\* the arguments of a merge call, its result tuple (migrated, new_count,
\* final_date) and, for the properties, what it found: old_date, the number
\* of superseded rows, and whether the batch is a copy of the rows it
\* supersedes at its own date
CallRecord(new_date, df, types) ==
    [new_date   |-> new_date,
     df         |-> df,
     types      |-> types,
     old_date   |-> find_snapshot_in_month(snapshots, new_date),
     final_date |-> merge_final_date(snapshots, new_date),
     migrated   |-> merge_migrated(holdings, snapshots, new_date, types),
     new_count  |-> Len(df),
     deleted    |-> BagCardinality(Superseded(holdings, snapshots, new_date, types)),
     reupload   |-> /\ find_snapshot_in_month(snapshots, new_date) # None
                    /\ Superseded(holdings, snapshots, new_date, types)
                         = FrameBag(df, merge_final_date(snapshots, new_date))]

\* merge_holdings_within_month returns
Merge(new_date, df, types) ==
    /\ pc = "idle"
    /\ upload_logs - base_logs < MaxLogs
    /\ ~save_holdings_raises(df)
    /\ holdings' = merge_holdings(holdings, snapshots, new_date, df, types, 0)
    /\ snapshots' = merge_snapshots(snapshots, new_date, df, 0)
    /\ call' = CallRecord(new_date, df, types)
    /\ pc' = "merged"
    /\ pending' = IF pending.stage = "failed" /\ SameArgs(pending, new_date, df, types)
                  THEN [pending EXCEPT !.stage = "retried"]
                  ELSE NoPending
    /\ error' = "none"
    /\ merged_dates' = merged_dates \cup {new_date}
    /\ UNCHANGED <<upload_logs, faults, found, net_at, op, base_logs>>

\* merge_holdings_within_month raises: the handler's except clause reports
\* the error and the handler ends
MergeRaises(new_date, df, types, fail_at) ==
    /\ pc = "idle"
    /\ upload_logs - base_logs < MaxLogs
    /\ faults < MaxFaults
    /\ merge_raises_at(df, fail_at) # 0
    /\ fail_at \in FailPoints(snapshots, new_date) \cup {0}
    /\ holdings' = merge_holdings(holdings, snapshots, new_date, df, types, fail_at)
    /\ snapshots' = merge_snapshots(snapshots, new_date, df, fail_at)
    /\ call' = NoCall
    /\ pc' = "idle"
    /\ pending' =
         IF save_holdings_raises(df) THEN NoPending
         ELSE IF pending.stage = "failed" /\ SameArgs(pending, new_date, df, types)
         THEN pending
         ELSE LET H0 == merge_holdings(holdings, snapshots, new_date, df, types, 0)
                  S0 == merge_snapshots(snapshots, new_date, df, 0)
                  d0 == merge_final_date(snapshots, new_date)
              IN  [stage      |-> "failed",
                   new_date   |-> new_date,
                   df         |-> df,
                   types      |-> types,
                   final_date |-> d0,
                   holdings   |-> H0,
                   snapshots  |-> Totals(handoff_snapshots(H0, S0, d0, None, None))]
    /\ faults' = faults + 1
    /\ error' = IF save_holdings_raises(df) /\ fail_at = 0
                THEN "ValueError" ELSE "OperationalError"
    /\ UNCHANGED <<upload_logs, found, net_at, op, merged_dates, base_logs>>

\* what get_benchmarks returns: (None, None) when the index service cannot
\* be reached, the two closing values otherwise
BenchmarkOutcomes == { <<None, None>>, <<24000, 80000>> }

\* get_holdings_df(final_date), calculate_portfolio_summary, get_benchmarks,
\* save_snapshot, log_upload.  get_benchmarks, the handler's external call,
\* is issued here, after the merge call has returned.
Handoff(nifty, sensex) ==
    /\ pc = "merged"
    /\ LET data == crypto_snapshot_data(holdings, call.final_date, nifty, sensex)
       IN  /\ snapshots' = save_snapshot(snapshots, data)
           /\ upload_logs' = IF save_snapshot_raises(snapshots, data)
                             THEN upload_logs ELSE upload_logs + 1
           /\ error' = IF save_snapshot_raises(snapshots, data)
                       THEN "IntegrityError" ELSE "none"
           /\ call' = NoCall
    /\ pc' = "idle"
    /\ pending' = IF pending.stage = "retried"
                  THEN [pending EXCEPT !.stage = "done"]
                  ELSE NoPending
    /\ net_at' = pc
    /\ UNCHANGED <<holdings, faults, found, op, merged_dates, base_logs>>

Next ==
    \/ \E d \in Dates, df \in Batches, t \in UploadTypeSets : Merge(d, df, t)
    \/ \E b \in BenchmarkOutcomes : Handoff(b[1], b[2])

Spec == Init /\ [][Next]_vars

NextFault ==
    \/ Next
    \/ \E d \in Dates, df \in Batches \cup BadBatches, t \in UploadTypeSets,
          k \in 0..3 : MergeRaises(d, df, t, k)

SpecFault == Init /\ [][NextFault]_vars

----------------------------------------------------------------------------
\* The Upload page (src/app/pages/3_Upload.py): "Save to Database",
\* "Replace Existing Data", "Delete Selected Snapshot" and "Clear All Data".
\* Each handler runs from its check to its last store operation in one
\* script run; it is another page than the crypto page, so it can run while
\* a crypto save is between its merge call and its snapshot write.

\* rows the file parsers hand over: the stock row of the crypto-page batches
UploadRows == { r \in ValidRows : r.type = "stock" }

\* combined_df: the parsed files concatenated, at least one row
UploadBatches == SeqsUpTo(UploadRows, MaxBatch) \ {<<>>}

\* the snapshot row the Upload page builds: no crypto_value key, the column
\* takes its default 0.0
upload_snapshot_data(summary, snapshot_date, nifty, sensex) ==
    [snapshot_date    |-> snapshot_date,
     total_value      |-> summary.total_value,
     stocks_value     |-> summary.stocks_value,
     mf_value         |-> summary.mf_value,
     us_stocks_value  |-> summary.us_stocks_value,
     crypto_value     |-> 0,
     total_invested   |-> summary.total_invested,
     total_pl         |-> summary.total_pl,
     total_pl_pct     |-> summary.total_pl_pct,
     benchmark_nifty  |-> nifty,
     benchmark_sensex |-> sensex]

\* one upload_logs row per uploaded file; a file is of one type
upload_files(combined_df) == Cardinality(SeqTypes(combined_df))

\* "Save to Database": offered when no snapshot has the very date
UploadSave(snapshot_date, combined_df, nifty, sensex) ==
    /\ ~snapshot_exists(snapshots, snapshot_date)
    /\ upload_logs - base_logs + upload_files(combined_df) <= MaxLogs
    /\ holdings' = save_holdings(holdings, combined_df, snapshot_date)
    /\ snapshots' = save_snapshot(snapshots,
                       upload_snapshot_data(
                         calculate_portfolio_summary(FrameBag(combined_df, snapshot_date)),
                         snapshot_date, nifty, sensex))
    /\ upload_logs' = upload_logs + upload_files(combined_df)
    /\ net_at' = "saved"
    /\ error' = "none"
    /\ UNCHANGED <<pc, call, pending, faults, found, op, merged_dates, base_logs>>

\* "Replace Existing Data": offered when a snapshot has the very date
UploadReplace(snapshot_date, combined_df, nifty, sensex) ==
    /\ snapshot_exists(snapshots, snapshot_date)
    /\ upload_logs - base_logs + upload_files(combined_df) <= MaxLogs
    /\ LET types_to_replace     == SeqTypes(combined_df)
           deleted              == delete_holdings_by_type(holdings, snapshot_date,
                                                           types_to_replace)
           existing_holdings_df == get_holdings_df(deleted, snapshot_date)
           final_df             == existing_holdings_df
                                     (+) FrameBag(combined_df, snapshot_date)
       IN  /\ holdings' = save_holdings(deleted, combined_df, snapshot_date)
           /\ snapshots' = save_snapshot(
                              delete_snapshot_row(snapshots, snapshot_date),
                              upload_snapshot_data(calculate_portfolio_summary(final_df),
                                                   snapshot_date, nifty, sensex))
    /\ upload_logs' = upload_logs + upload_files(combined_df)
    /\ net_at' = "saved"
    /\ error' = "none"
    /\ UNCHANGED <<pc, call, pending, faults, found, op, merged_dates, base_logs>>

\* the dropdown of "Delete Selected Snapshot": a dict keyed by the month
\* label "%b %Y" filled from get_snapshots (latest first), so of the
\* snapshots of one month the earliest is the one that can be selected
snapshot_options(S) ==
    { d \in SnapshotDates(S) :
        \A e \in SnapshotDates(S) : SameMonth(d, e) => d <= e }

DeleteSnapshot(snapshot_date) ==
    /\ snapshot_date \in snapshot_options(snapshots)
    /\ holdings' = delete_snapshot_holdings(holdings, snapshot_date)
    /\ snapshots' = delete_snapshot_row(snapshots, snapshot_date)
    /\ error' = "none"
    /\ merged_dates' = { m \in merged_dates : ~SameMonth(m, snapshot_date) }
    /\ UNCHANGED <<upload_logs, pc, call, pending, faults, found, net_at, op,
                   base_logs>>

\* clear_all_data: holdings, snapshots and upload logs emptied
ClearAllData ==
    /\ holdings' = EmptyBag
    /\ snapshots' = {}
    /\ upload_logs' = 0
    /\ error' = "none"
    /\ merged_dates' = {}
    /\ UNCHANGED <<pc, call, pending, faults, found, net_at, op, base_logs>>

NextUpload ==
    \/ Next
    \/ \E d \in Dates, df \in UploadBatches, b \in BenchmarkOutcomes :
          UploadSave(d, df, b[1], b[2])
    \/ \E d \in Dates, df \in UploadBatches, b \in BenchmarkOutcomes :
          UploadReplace(d, df, b[1], b[2])
    \/ \E d \in Dates : DeleteSnapshot(d)
    \/ ClearAllData

SpecUpload == Init /\ [][NextUpload]_vars

----------------------------------------------------------------------------
\* find_snapshot_in_month as a query on its own: the store is any set of
\* snapshot rows over the holdings of a few saves, months with two snapshots
\* and the first days of December and January included.

\* 2024-12-01 and 2025-01-01 beside the dates of the saves
FindDates == Dates \cup {20241201, 20250101}

\* the holdings of the queried stores
FindHoldings ==
    { EmptyBag,
      FrameBag(<<CHOOSE r \in ValidRows : r.type = "stock">>, 20241203),
      FrameBag(<<CHOOSE r \in ValidRows : r.type = "crypto">>, 20250102) }

InitFind ==
    /\ holdings \in FindHoldings
    /\ \E ds \in SUBSET FindDates :
         snapshots = { crypto_snapshot_data(holdings, d, None, None) : d \in ds }
    /\ upload_logs = 0
    /\ pc = "idle"
    /\ call = NoCall
    /\ pending = NoPending
    /\ faults = 0
    /\ found = NoQuery
    /\ net_at = "none"
    /\ error = "none"
    /\ op = NoOp
    /\ merged_dates = {}
    /\ base_logs = 0

\* repo.find_snapshot_in_month(target_date): a select, no commit
FindSnapshotInMonth(target_date) ==
    /\ found' = [target |-> target_date,
                 result |-> find_snapshot_in_month(snapshots, target_date)]
    /\ UNCHANGED <<holdings, snapshots, upload_logs, pc, call, pending, faults,
                   net_at, error, op, merged_dates, base_logs>>

NextFind == \E t \in FindDates : FindSnapshotInMonth(t)

SpecFind == InitFind /\ [][NextFind]_vars

----------------------------------------------------------------------------
\* The repository operations called on their own: delete_snapshot,
\* clear_all_data, migrate_holdings_to_new_date and delete_holdings_by_type
\* on the stores a few saves leave: holdings at 2024-12-03 and at a second
\* date, with a snapshot row (and an upload log) for any of the dates.

RepoDates == {20241203, 20241215, 20250102}

InitRepo ==
    /\ \E df1 \in Batches, df2 \in Batches, d2 \in RepoDates \ {20241203} :
         holdings = FrameBag(df1, 20241203) (+) FrameBag(df2, d2)
    /\ \E ds \in SUBSET RepoDates :
         /\ snapshots = { crypto_snapshot_data(holdings, d, None, None) : d \in ds }
         /\ upload_logs = Cardinality(ds)
         /\ base_logs = Cardinality(ds)
    /\ pc = "idle"
    /\ call = NoCall
    /\ pending = NoPending
    /\ faults = 0
    /\ found = NoQuery
    /\ net_at = "none"
    /\ error = "none"
    /\ op = NoOp
    /\ merged_dates = {}

\* the operation, its arguments, its return value, the number of holdings
\* rows and of snapshot rows it deleted, and how many operations were called
OpRecord(name, from, to, types, result, H1, S1) ==
    [name   |-> name,
     from   |-> from,
     to     |-> to,
     types  |-> types,
     result |-> result,
     rows   |-> BagCardinality(holdings) - BagCardinality(H1),
     snaps  |-> Cardinality(snapshots) - Cardinality(S1),
     n      |-> op.n + 1]

\* repo.delete_snapshot(snapshot_date)
CallDeleteSnapshot(snapshot_date) ==
    LET H1 == delete_snapshot_holdings(holdings, snapshot_date)
        S1 == delete_snapshot_row(snapshots, snapshot_date)
    IN  /\ op.n < MaxOps
        /\ holdings' = H1
        /\ snapshots' = S1
        /\ op' = OpRecord("delete_snapshot", snapshot_date, None, {}, None, H1, S1)
        /\ UNCHANGED <<upload_logs, pc, call, pending, faults, found, net_at,
                       error, merged_dates, base_logs>>

\* repo.clear_all_data()
CallClearAllData ==
    /\ op.n < MaxOps
    /\ holdings' = EmptyBag
    /\ snapshots' = {}
    /\ upload_logs' = 0
    /\ op' = OpRecord("clear_all_data", None, None, {}, None, EmptyBag, {})
    /\ UNCHANGED <<pc, call, pending, faults, found, net_at, error, merged_dates,
                   base_logs>>

\* repo.migrate_holdings_to_new_date(old_date, new_date, exclude_types);
\* the empty set stands for both None and the empty list
CallMigrateHoldings(old_date, new_date, exclude_types) ==
    LET H1 == migrate_holdings_to_new_date(holdings, old_date, new_date,
                                           exclude_types)
    IN  /\ op.n < MaxOps
        /\ holdings' = H1
        /\ op' = OpRecord("migrate_holdings_to_new_date", old_date, new_date,
                          exclude_types,
                          migrated_count(holdings, old_date, exclude_types),
                          H1, snapshots)
        /\ UNCHANGED <<snapshots, upload_logs, pc, call, pending, faults, found,
                       net_at, error, merged_dates, base_logs>>

\* repo.delete_holdings_by_type(snapshot_date, holding_types)
CallDeleteHoldingsByType(snapshot_date, holding_types) ==
    LET H1 == delete_holdings_by_type(holdings, snapshot_date, holding_types)
    IN  /\ op.n < MaxOps
        /\ holdings' = H1
        /\ op' = OpRecord("delete_holdings_by_type", snapshot_date, None,
                          holding_types,
                          delete_holdings_by_type_count(holdings, snapshot_date,
                                                        holding_types),
                          H1, snapshots)
        /\ UNCHANGED <<snapshots, upload_logs, pc, call, pending, faults, found,
                       net_at, error, merged_dates, base_logs>>

NextRepo ==
    \/ \E d \in RepoDates : CallDeleteSnapshot(d)
    \/ CallClearAllData
    \/ \E d1 \in RepoDates, d2 \in RepoDates, ex \in UploadTypeSets :
          CallMigrateHoldings(d1, d2, ex)
    \/ \E d \in RepoDates, t \in UploadTypeSets : CallDeleteHoldingsByType(d, t)

SpecRepo == InitRepo /\ [][NextRepo]_vars

----------------------------------------------------------------------------
\* The crypto save handler on the stores the Upload page's "Save to
\* Database" leaves: it checks the exact date only, so saves at 2024-12-03
\* and 2024-12-15 leave two snapshot rows in December, each with its
\* holdings; a third save at 2025-01-02 may have followed.

SavedDates == {20241203, 20241215, 20241220, 20250102}

\* the frame of a saved file: one parsed row
SavedBatches == { <<r>> : r \in UploadRows }

InitSaved ==
    /\ \E df1 \in SavedBatches, df2 \in SavedBatches,
          df3 \in SavedBatches \cup {<<>>} :
         LET saved == {<<20241203, df1>>, <<20241215, df2>>}
                        \cup (IF df3 # <<>> THEN {<<20250102, df3>>} ELSE {})
         IN  /\ holdings = FrameBag(df1, 20241203) (+) FrameBag(df2, 20241215)
                             (+) FrameBag(df3, 20250102)
             /\ snapshots =
                  { upload_snapshot_data(
                      calculate_portfolio_summary(FrameBag(p[2], p[1])),
                      p[1], None, None) : p \in saved }
             /\ upload_logs = upload_files(df1) + upload_files(df2)
                                + upload_files(df3)
             /\ base_logs = upload_files(df1) + upload_files(df2)
                              + upload_files(df3)
    /\ pc = "idle"
    /\ call = NoCall
    /\ pending = NoPending
    /\ faults = 0
    /\ found = NoQuery
    /\ net_at = "saved"
    /\ error = "none"
    /\ op = NoOp
    /\ merged_dates = {}

\* the benchmark columns play no part here: the fetch returns (None, None)
NextSaved ==
    \/ \E d \in SavedDates, df \in Batches, t \in UploadTypeSets : Merge(d, df, t)
    \/ Handoff(None, None)

SpecSaved == InitSaved /\ [][NextSaved]_vars

----------------------------------------------------------------------------
\* Vocabulary of the properties

\* a merge call has just returned / the step is a returning merge call
Merged == pc = "merged"
MergeStep == pc = "idle" /\ pc' = "merged"

\* every row of the batch is of a covered type
BatchCovered(c) == SeqTypes(c.df) \subseteq c.types

\* column sum over the rows of a batch, row by row
RECURSIVE SumSeq(_, _)
SumSeq(df, col) ==
    IF df = <<>> THEN 0 ELSE Head(df)[col] + SumSeq(Tail(df), col)

\* a holdings row without its date, and the bag of the rows of a bag so read
Unstamped(h) == [type           |-> h.type,
                 current_value  |-> h.current_value,
                 invested_value |-> h.invested_value,
                 unrealized_pl  |-> h.unrealized_pl]

ValuesBag(B) ==
    [v \in { Unstamped(h) : h \in DOMAIN B } |->
       BagCardinality(Where(B, { h \in DOMAIN B : Unstamped(h) = v }))]

\* the summary key and snapshot column that carries the subtotal of a type
SubtotalKey(t) ==
    CASE t = "stock"       -> "stocks_value"
      [] t = "mutual_fund" -> "mf_value"
      [] t = "us_stock"    -> "us_stocks_value"
      [] t = "crypto"      -> "crypto_value"

CoveredAt(H, d, types) ==
    Where(H, { h \in DOMAIN H : h.snapshot_date = d /\ h.type \in types })

UncoveredAt(H, d, types) ==
    Where(H, { h \in DOMAIN H : h.snapshot_date = d /\ h.type \notin types })

SnapshotsAt(S, d) == { s \in S : s.snapshot_date = d }

\* every date present among the holdings has exactly one snapshot row
OneSnapshotPerHoldingDate(H, S) ==
    \A d \in HoldingDates(H) : Cardinality(SnapshotsAt(S, d)) = 1

\* no two snapshot rows in one calendar month
OneSnapshotPerMonth(S) ==
    \A s \in S, t \in S :
      SameMonth(s.snapshot_date, t.snapshot_date) => s = t

\* of a set of dates, the latest of each calendar month
MonthMax(D) == { d \in D : \A e \in D : SameMonth(d, e) => e <= d }

\* the holdings dated in the calendar month of d
MonthHoldings(H, d) ==
    Where(H, { h \in DOMAIN H : SameMonth(h.snapshot_date, d) })

----------------------------------------------------------------------------
\* C1.  After every merge completed by the summarize-and-save handoff, each
\* date present among the holdings has exactly one snapshot row, and that
\* row's total_value is the sum of current_value over the holdings of the
\* date.
C1_SnapshotPerHoldingDate ==
    pc = "idle" =>
      \A d \in HoldingDates(holdings) :
        /\ Cardinality(SnapshotsAt(snapshots, d)) = 1
        /\ \A s \in SnapshotsAt(snapshots, d) :
             s.total_value = SumCol(HoldingsAt(holdings, d), "current_value")

\* two handlers completed, two holdings under one snapshot of total 1500
C1_Witness ==
    /\ pc = "idle"
    /\ upload_logs = 2
    /\ \E s \in snapshots :
         /\ s.total_value = 1500
         /\ BagCardinality(HoldingsAt(holdings, s.snapshot_date)) = 2

----------------------------------------------------------------------------
\* C2.  Type isolation: a merge at a date D that already has a snapshot,
\* with a batch of covered types only, leaves the holdings at D of every
\* uncovered type as they were (same rows, same count) and leaves as
\* covered-type holdings at D exactly the rows of the batch.
C2_TypeIsolation ==
    [][ (MergeStep /\ snapshot_exists(snapshots, call'.new_date)
                   /\ BatchCovered(call'))
        => LET D     == call'.new_date
               types == call'.types
           IN  /\ UncoveredAt(holdings', D, types) = UncoveredAt(holdings, D, types)
               /\ CoveredAt(holdings', D, types) = FrameBag(call'.df, D) ]_vars

\* a crypto-only batch has replaced different crypto rows at a date where
\* stock rows are still present
C2_Witness ==
    /\ Merged
    /\ call.old_date = call.new_date
    /\ call.types = {"crypto"}
    /\ BatchCovered(call)
    /\ Len(call.df) >= 1
    /\ call.deleted >= 1
    /\ ~call.reupload
    /\ UncoveredAt(holdings, call.new_date, call.types) # EmptyBag

----------------------------------------------------------------------------
\* C3.  Same-month re-dating: when the month's snapshot is at an earlier day
\* d1 and a batch of covered types only is merged at a later day d2, then
\* final_date = d2, the covered-type holdings at d2 are exactly the batch,
\* the uncovered-type holdings formerly at d1 are at d2 (count unchanged),
\* no holding and no snapshot remains at d1, and migrated is the number of
\* uncovered-type holdings.
C3_SameMonthReDating ==
    [][ MergeStep /\ BatchCovered(call')
        => \A d1 \in SnapshotDates(snapshots) :
             LET d2    == call'.new_date
                 types == call'.types
             IN  (SameMonth(d1, d2) /\ d1 < d2) =>
                   /\ call'.final_date = d2
                   /\ CoveredAt(holdings', d2, types) = FrameBag(call'.df, d2)
                   /\ BagCardinality(CoveredAt(holdings', d2, types)) = Len(call'.df)
                   /\ UncoveredAt(holdings', d2, types)
                        = ReDate(UncoveredAt(holdings, d1, types), d1, d2)
                   /\ BagCardinality(UncoveredAt(holdings', d2, types))
                        = BagCardinality(UncoveredAt(holdings, d1, types))
                   /\ HoldingsAt(holdings', d1) = EmptyBag
                   /\ SnapshotsAt(snapshots', d1) = {}
                   /\ call'.migrated
                        = BagCardinality(UncoveredAt(holdings, d1, types)) ]_vars

\* a stock-only batch merged at a later day of the month: a crypto row was
\* re-dated and a stock row superseded
C3_Witness ==
    /\ Merged
    /\ call.old_date # None
    /\ call.old_date < call.new_date
    /\ call.types = {"stock"}
    /\ BatchCovered(call)
    /\ Len(call.df) = 2
    /\ call.migrated = 1
    /\ call.deleted = 1

----------------------------------------------------------------------------
\* C4.  Idempotent re-upload: once a merge of a batch of covered types only
\* has returned, completing the handoff and then performing the same merge
\* and handoff again (same new_date, batch and upload_types) leaves the
\* covered types at the date with exactly one copy of the batch (as many
\* rows as the batch, not twice as many) and leaves holdings and snapshots
\* as they are after the first merge and handoff.  A merge whose batch is a
\* copy of the rows it supersedes leaves exactly the batch.
C4_IdempotentReupload ==
    (Merged /\ BatchCovered(call)) =>
      LET S1 == handoff_snapshots(holdings, snapshots, call.final_date, None, None)
          d2 == merge_final_date(S1, call.new_date)
          H2 == merge_holdings(holdings, S1, call.new_date, call.df, call.types, 0)
          S2 == handoff_snapshots(H2, merge_snapshots(S1, call.new_date, call.df, 0),
                                  d2, None, None)
      IN  /\ d2 = call.final_date
          /\ H2 = holdings
          /\ S2 = S1
          /\ BagCardinality(CoveredAt(H2, d2, call.types)) = Len(call.df)
          /\ call.reupload =>
               CoveredAt(holdings, call.final_date, call.types)
                 = FrameBag(call.df, call.final_date)

\* the second merge of an identical two-row batch at the date of the
\* snapshot has returned
C4_Witness ==
    /\ Merged
    /\ BatchCovered(call)
    /\ call.reupload
    /\ call.old_date = call.new_date
    /\ Len(call.df) = 2
    /\ call.deleted = 2
    /\ upload_logs = 1

----------------------------------------------------------------------------
\* C5.  Final-date rule: with no snapshot in the month of new_date the merge
\* returns final_date = new_date and migrated = 0; with a snapshot in the
\* month at old_date it returns final_date = max(old_date, new_date); in
\* both cases the rows of the batch are stored with snapshot_date =
\* final_date and new_count is the size of the batch.
C5_FinalDateRule ==
    [][ MergeStep
        => LET new_date == call'.new_date
               inMonth  == { d \in SnapshotDates(snapshots) : SameMonth(d, new_date) }
               kept     == Where(holdings,
                                 { h \in DOMAIN holdings :
                                     ~(SameMonth(h.snapshot_date, new_date)
                                       /\ h.type \in call'.types) })
               stored   == FrameBag(call'.df, call'.final_date)
           IN  /\ inMonth = {} => call'.final_date = new_date /\ call'.migrated = 0
               /\ \A old_date \in inMonth :
                    call'.final_date = Max(old_date, new_date)
               /\ \A h \in DOMAIN stored :
                    /\ h \in DOMAIN holdings'
                    /\ holdings'[h] >= stored[h]
               /\ BagCardinality(holdings')
                    = BagCardinality(kept) + Len(call'.df)
               /\ call'.new_count = Len(call'.df) ]_vars

\* a two-row batch merged at a day earlier than the month's snapshot
C5_Witness ==
    /\ Merged
    /\ call.old_date # None
    /\ call.new_date < call.old_date
    /\ call.final_date = call.old_date
    /\ Len(call.df) = 2
    /\ BagCardinality(HoldingsAt(holdings, call.final_date)) >= 2

----------------------------------------------------------------------------
\* C6.  Merge is atomic: a merge call that raises leaves holdings and
\* snapshots exactly as they were before the call.
C6_MergeAtomic ==
    [][ faults' # faults
        => (holdings' = holdings /\ snapshots' = snapshots) ]_vars

----------------------------------------------------------------------------
\* C7.  A merge whose batch holds a row of a type outside upload_types
\* fails: no such merge call returns.
C7_RejectsUncoveredType ==
    Merged => BatchCovered(call)

----------------------------------------------------------------------------
\* C8.  A merge with empty upload_types and a non-empty batch fails: no such
\* merge call returns.
C8_RejectsEmptyCoveredTypes ==
    (Merged /\ call.types = {}) => call.df = <<>>

----------------------------------------------------------------------------
\* C9.  Retry convergence: when a merge call raised after some of its steps
\* were committed and the same call is replayed and completed by the
\* handoff, the holdings and the snapshots (dates and totals) are those an
\* unfailed merge and handoff from the original state would have left.
C9_RetryConverges ==
    pending.stage = "done" =>
      /\ holdings = pending.holdings
      /\ Totals(snapshots) = pending.snapshots

----------------------------------------------------------------------------
\* C10.  After every merge completed by the handoff, a calendar month has at
\* most one snapshot, and every holding of the month carries the date of
\* that snapshot.
C10_OneSnapshotPerMonth ==
    pc = "idle" =>
      /\ \A s1, s2 \in snapshots :
           SameMonth(s1.snapshot_date, s2.snapshot_date) => s1 = s2
      /\ \A h \in DOMAIN holdings :
           /\ \E s \in snapshots : s.snapshot_date = h.snapshot_date
           /\ \A s \in snapshots :
                SameMonth(s.snapshot_date, h.snapshot_date)
                  => s.snapshot_date = h.snapshot_date

\* two merges into one month have completed
C10_Witness ==
    /\ pc = "idle"
    /\ upload_logs = 2
    /\ Cardinality(snapshots) = 1
    /\ BagCardinality(holdings) >= 2

----------------------------------------------------------------------------
\* C11.  find_snapshot_in_month(target) returns the date of the most recent
\* snapshot of the calendar month of target (first of the month <= d < first
\* of the next month) and None when the month has no snapshot; for a
\* December target the interval ends at January 1 of the next year, so a
\* Dec 15 target matches a Dec 3 snapshot and never one of January; the
\* query changes neither holdings nor snapshots.
C11_FindSnapshotInMonth ==
    [][ found' # found
        => LET target  == found'.target
               result  == found'.result
               year    == target \div 10000
               month   == (target \div 100) % 100
               lo      == year * 10000 + month * 100 + 1
               hi      == IF month = 12 THEN (year + 1) * 10000 + 101
                          ELSE year * 10000 + (month + 1) * 100 + 1
               inMonth == { d \in SnapshotDates(snapshots) : lo <= d /\ d < hi }
           IN  /\ holdings' = holdings
               /\ snapshots' = snapshots
               /\ inMonth = {} <=> result = None
               /\ inMonth # {} =>
                    /\ result \in inMonth
                    /\ \A d \in inMonth : d <= result
               /\ (target = 20241215 /\ 20241203 \in SnapshotDates(snapshots))
                    => result \in {20241203, 20241215}
               /\ month = 12 => result \notin {20250101, 20250102, 20250115} ]_vars

\* a Dec 15 query on a store with snapshots at Dec 1, Dec 3 and Jan 1, Jan 2
\* has returned Dec 3
C11_Witness ==
    /\ found.target = 20241215
    /\ found.result = 20241203
    /\ {20241201, 20241203, 20250101, 20250102} \subseteq SnapshotDates(snapshots)
    /\ holdings # EmptyBag

----------------------------------------------------------------------------
\* C12.  After every completed merge and handoff, each per-type subtotal of
\* the snapshot (stocks_value, mf_value, us_stocks_value, crypto_value) is
\* the sum of current_value of the holdings of that type at the snapshot's
\* date, so the four subtotals add up to total_value.
C12_SubtotalsByType ==
    pc = "idle" =>
      \A s \in snapshots :
        LET at == HoldingsAt(holdings, s.snapshot_date)
        IN  /\ s.stocks_value = SumCol(OfType(at, "stock"), "current_value")
            /\ s.mf_value = SumCol(OfType(at, "mutual_fund"), "current_value")
            /\ s.us_stocks_value = SumCol(OfType(at, "us_stock"), "current_value")
            /\ s.crypto_value = SumCol(OfType(at, "crypto"), "current_value")
            /\ s.stocks_value + s.mf_value + s.us_stocks_value + s.crypto_value
                 = s.total_value

----------------------------------------------------------------------------
\* C13.  calculate_portfolio_summary returns, for every holding type of the
\* enum, a subtotal that is the sum of current_value of the rows of that
\* type in the frame it is given, 0 for a type the frame does not hold (a
\* key the dict lacks is read as 0, the way the handlers read it).
C13_SubtotalForEveryType ==
    Merged =>
      LET frame   == get_holdings_df(holdings, call.final_date)
          summary == calculate_portfolio_summary(frame)
      IN  \A t \in HoldingType :
            DictGet(summary, SubtotalKey(t), 0)
              = SumCol(OfType(frame, t), "current_value")

----------------------------------------------------------------------------
\* C14.  calculate_portfolio_summary of a batch: total_value is the sum of
\* current_value, total_invested the sum of invested_value, total_pl the sum
\* of the rows' unrealized_pl (not total_value - total_invested), and
\* total_pl_pct is total_pl / total_invested * 100 when total_invested > 0
\* and 0 otherwise; the empty batch gives all-zero totals.
C14_SummaryTotals ==
    Merged =>
      LET df       == call.df
          summary  == calculate_portfolio_summary(FrameBag(df, call.final_date))
          invested == SumSeq(df, "invested_value")
          pl       == SumSeq(df, "unrealized_pl")
          pct      == summary.total_pl_pct
      IN  /\ summary.total_value = SumSeq(df, "current_value")
          /\ summary.total_invested = invested
          /\ summary.total_pl = pl
          /\ pct[2] > 0
          /\ invested > 0 => pct[1] * invested = pl * 100 * pct[2]
          /\ invested <= 0 => pct[1] = 0
          /\ df = <<>> =>
               /\ summary.total_value = 0
               /\ summary.total_invested = 0
               /\ summary.total_pl = 0
               /\ pct[1] = 0

\* a batch of a stock row and a crypto row: money was invested, and the sum
\* of the rows' unrealized_pl is not total_value - total_invested
C14_Witness ==
    /\ Merged
    /\ Len(call.df) = 2
    /\ SeqTypes(call.df) = {"stock", "crypto"}
    /\ SumSeq(call.df, "invested_value") > 0
    /\ SumSeq(call.df, "unrealized_pl")
         # SumSeq(call.df, "current_value") - SumSeq(call.df, "invested_value")

----------------------------------------------------------------------------
\* C15.  On an empty store, merging the one-row batch {stock, current_value
\* 1000, invested_value 900, unrealized_pl 100} with new_date 2025-01-15 and
\* upload_types {stock} returns migrated 0, new_count 1 and final_date
\* 2025-01-15, leaves exactly that one holding at 2025-01-15, and the
\* summary of the holdings at that date has total_value 1000,
\* total_invested 900 and total_pl 100.
C15_FirstStockUpload ==
    [][ ( /\ MergeStep
          /\ holdings = EmptyBag
          /\ snapshots = {}
          /\ call'.new_date = 20250115
          /\ call'.df = << [type |-> "stock", current_value |-> 1000,
                            invested_value |-> 900, unrealized_pl |-> 100] >>
          /\ call'.types = {"stock"} )
        => LET summary == calculate_portfolio_summary(
                            get_holdings_df(holdings', 20250115))
           IN  /\ call'.migrated = 0
               /\ call'.new_count = 1
               /\ call'.final_date = 20250115
               /\ BagCardinality(holdings') = 1
               /\ \A h \in DOMAIN holdings' :
                    /\ h.snapshot_date = 20250115
                    /\ h.type = "stock"
                    /\ h.current_value = 1000
                    /\ h.invested_value = 900
                    /\ h.unrealized_pl = 100
               /\ summary.total_value = 1000
               /\ summary.total_invested = 900
               /\ summary.total_pl = 100 ]_vars

\* the first merge of a behaviour was that call, and it has returned
C15_Witness ==
    /\ Merged
    /\ upload_logs = 0
    /\ call.new_date = 20250115
    /\ call.types = {"stock"}
    /\ Len(call.df) = 1
    /\ SeqTypes(call.df) = {"stock"}
    /\ call.old_date = None
    /\ BagCardinality(holdings) = 1

----------------------------------------------------------------------------
\* C16.  save_snapshot for a date that already has a snapshot fails and
\* leaves the snapshots table unchanged, so under merges, handoffs, the
\* Upload page's saves and replaces and the deletions no two snapshot rows
\* ever carry the same date.
C16_SnapshotDateUnique ==
    [][ /\ \A s1, s2 \in snapshots' :
             s1.snapshot_date = s2.snapshot_date => s1 = s2
        /\ ( /\ pc = "merged"
             /\ pc' = "idle"
             /\ snapshot_exists(snapshots, call.final_date) )
           => /\ error' = "IntegrityError"
              /\ snapshots' = snapshots
              /\ upload_logs' = upload_logs
        /\ error' = "IntegrityError" => snapshots' = snapshots ]_vars

\* a crypto save whose save_snapshot met a snapshot the Upload page had
\* written for the same date in the meantime, with other totals than the
\* holdings of the date have
C16_Witness ==
    /\ error = "IntegrityError"
    /\ pc = "idle"
    /\ \E s \in snapshots :
         /\ s.total_value = 1000
         /\ SumCol(HoldingsAt(holdings, s.snapshot_date), "current_value") = 1500

----------------------------------------------------------------------------
----------------------------------------------------------------------------
\* C18.  In every save flow the external calls are resolved before the merge
\* is invoked: an external call is only ever issued at the handler position
\* "idle", never between the merge's store mutations and the write of the
\* replacement snapshot.
C18_ExternalCallsBeforeMerge ==
    net_at \in {"none", "idle"}

----------------------------------------------------------------------------
\* C19.  A migrated holding changes only its snapshot_date: across a merge
\* that re-dates from old_date to final_date, the holdings at final_date
\* beside the batch are, type and value fields unchanged, the holdings of
\* old_date that were not of an uploaded type, and nothing stays at
\* old_date; across any merge, every holding is a row of the batch, a
\* holding that was there unchanged, or such a holding re-dated from
\* old_date, and the holdings of every other date are exactly as before.
C19_MigrationKeepsValues ==
    [][ MergeStep
        => LET old_date   == call'.old_date
               final_date == call'.final_date
               types      == call'.types
               batch      == FrameBag(call'.df, final_date)
               moved      == Where(holdings,
                                   { h \in DOMAIN holdings :
                                       /\ h.snapshot_date = old_date
                                       /\ (types = {} \/ h.type \notin types) })
           IN  /\ (old_date # None /\ old_date # final_date) =>
                    /\ ValuesBag(HoldingsAt(holdings', final_date) (-) batch)
                         = ValuesBag(moved)
                              (+) ValuesBag(HoldingsAt(holdings, final_date))
                    /\ HoldingsAt(holdings', old_date) = EmptyBag
                    /\ call'.migrated = BagCardinality(moved)
               /\ \A h \in DOMAIN holdings' :
                    \/ h \in DOMAIN batch
                    \/ h \in DOMAIN holdings
                    \/ /\ old_date # None
                       /\ h.snapshot_date = final_date
                       /\ [h EXCEPT !.snapshot_date = old_date] \in DOMAIN holdings
               /\ \A h \in DOMAIN holdings :
                    h.snapshot_date \notin {old_date, final_date}
                      => /\ h \in DOMAIN holdings'
                         /\ holdings'[h] = holdings[h] ]_vars

\* a crypto batch merged at a later day of the month: the stock holding of
\* the earlier day is now at the later day with its values
C19_Witness ==
    /\ Merged
    /\ call.old_date # None
    /\ call.old_date < call.final_date
    /\ call.types = {"crypto"}
    /\ call.migrated = 1
    /\ HoldingsAt(holdings, call.old_date) = EmptyBag
    /\ \E h \in DOMAIN holdings :
         /\ h.snapshot_date = call.final_date
         /\ h.type = "stock"
         /\ h.current_value = 1000
         /\ h.invested_value = 900
         /\ h.unrealized_pl = 100

----------------------------------------------------------------------------
\* C20.  get_holdings() without a date returns, for each type that has a
\* stored holding, exactly the holdings of that type at the type's latest
\* snapshot_date (types may come from different dates) and no holding of a
\* type from an earlier date; get_holdings(date) returns exactly the
\* holdings stamped with the date.
C20_LatestPerType ==
    LET latest == get_holdings(holdings, None)
    IN  /\ DOMAIN latest \subseteq DOMAIN holdings
        /\ \A h \in DOMAIN holdings :
             IF \E g \in DOMAIN holdings :
                  g.type = h.type /\ g.snapshot_date > h.snapshot_date
             THEN h \notin DOMAIN latest
             ELSE h \in DOMAIN latest /\ latest[h] = holdings[h]
        /\ \A d \in Dates :
             LET at == get_holdings(holdings, d)
             IN  /\ DOMAIN at \subseteq DOMAIN holdings
                 /\ \A h \in DOMAIN holdings :
                      IF h.snapshot_date = d
                      THEN h \in DOMAIN at /\ at[h] = holdings[h]
                      ELSE h \notin DOMAIN at

\* stock and crypto holdings in December, crypto holdings again in January:
\* the latest stock rows are December's, the latest crypto rows January's
C20_Witness ==
    LET latest == get_holdings(holdings, None)
    IN  /\ pc = "idle"
        /\ \E h \in DOMAIN latest : h.type = "stock" /\ h.snapshot_date < 20250101
        /\ \E h \in DOMAIN latest : h.type = "crypto" /\ h.snapshot_date > 20250101
        /\ \E h \in DOMAIN holdings : h.type = "crypto" /\ h.snapshot_date < 20250101
        /\ BagCardinality(latest) < BagCardinality(holdings)

----------------------------------------------------------------------------
\* C21.  delete_snapshot(d) removes the snapshot row at d together with
\* every holding stamped d and leaves the snapshots and holdings of all other
\* dates unchanged; clear_all_data leaves no holdings, snapshots or upload
\* logs; both keep "every date present among the holdings has exactly one
\* snapshot row" true when it was true before.
C21_DeleteAndClear ==
    [][ /\ op'.name = "delete_snapshot" =>
             LET d == op'.from
             IN  /\ SnapshotsAt(snapshots', d) = {}
                 /\ HoldingsAt(holdings', d) = EmptyBag
                 /\ snapshots' \subseteq snapshots
                 /\ \A s \in snapshots : s.snapshot_date # d => s \in snapshots'
                 /\ HoldingDates(holdings') \subseteq HoldingDates(holdings)
                 /\ \A e \in HoldingDates(holdings) \ {d} :
                      HoldingsAt(holdings', e) = HoldingsAt(holdings, e)
                 /\ upload_logs' = upload_logs
                 /\ OneSnapshotPerHoldingDate(holdings, snapshots)
                      => OneSnapshotPerHoldingDate(holdings', snapshots')
        /\ op'.name = "clear_all_data" =>
             /\ holdings' = EmptyBag
             /\ snapshots' = {}
             /\ upload_logs' = 0
             /\ OneSnapshotPerHoldingDate(holdings', snapshots') ]_vars

\* delete_snapshot removed a snapshot row and its holdings from a store that
\* has one snapshot per holding date and still holds another date's data
C21_Witness ==
    /\ op.name = "delete_snapshot"
    /\ op.snaps = 1
    /\ op.rows >= 1
    /\ HoldingsAt(holdings, op.from) = EmptyBag
    /\ holdings # EmptyBag
    /\ snapshots # {}
    /\ OneSnapshotPerHoldingDate(holdings, snapshots)

----------------------------------------------------------------------------
\* C22.  migrate_holdings_to_new_date(from, to, exclude_types) moves every
\* holding at from whose type is not excluded to date to, deletes every
\* holding at from whose type is excluded, returns the number moved (not the
\* number deleted) and, when from # to, leaves no holding at from; with no
\* excluded types every holding at from is moved and none is deleted.
C22_MigrateHoldings ==
    [][ op'.name = "migrate_holdings_to_new_date" =>
          LET from    == op'.from
              to      == op'.to
              ex      == op'.types
              moved   == UncoveredAt(holdings, from, ex)
              deleted == CoveredAt(holdings, from, ex)
          IN  /\ op'.result = BagCardinality(moved)
              /\ op'.rows = BagCardinality(deleted)
              /\ from # to =>
                   /\ HoldingsAt(holdings', from) = EmptyBag
                   /\ ValuesBag(HoldingsAt(holdings', to))
                        = ValuesBag(HoldingsAt(holdings, to)) (+) ValuesBag(moved)
              /\ from = to => HoldingsAt(holdings', from) = moved
              /\ \A e \in HoldingDates(holdings) \ {from, to} :
                   HoldingsAt(holdings', e) = HoldingsAt(holdings, e)
              /\ HoldingDates(holdings') \subseteq HoldingDates(holdings) \cup {to}
              /\ ex = {} =>
                   /\ op'.result = BagCardinality(HoldingsAt(holdings, from))
                   /\ op'.rows = 0
              /\ snapshots' = snapshots ]_vars

\* a migration that excluded crypto moved a stock row to a date that already
\* had holdings and deleted a crypto row
C22_Witness ==
    /\ op.name = "migrate_holdings_to_new_date"
    /\ op.from # op.to
    /\ op.types = {"crypto"}
    /\ op.result = 1
    /\ op.rows = 1
    /\ HoldingsAt(holdings, op.from) = EmptyBag
    /\ BagCardinality(HoldingsAt(holdings, op.to)) >= 2
    /\ \E h \in DOMAIN holdings : h.snapshot_date = op.to /\ h.type = "stock"

----------------------------------------------------------------------------
\* C23.  delete_holdings_by_type(d, types) deletes exactly the holdings
\* stamped d whose type is in types, returns their count, and leaves
\* unchanged every holding of another type at d, every holding at another
\* date, and every snapshot row.
C23_DeleteHoldingsByType ==
    [][ op'.name = "delete_holdings_by_type" =>
          LET d     == op'.from
              types == op'.types
          IN  /\ HoldingsAt(holdings', d) = UncoveredAt(holdings, d, types)
              /\ op'.result = BagCardinality(CoveredAt(holdings, d, types))
              /\ op'.rows = op'.result
              /\ \A e \in HoldingDates(holdings) \ {d} :
                   HoldingsAt(holdings', e) = HoldingsAt(holdings, e)
              /\ HoldingDates(holdings') \subseteq HoldingDates(holdings)
              /\ snapshots' = snapshots
              /\ upload_logs' = upload_logs ]_vars

\* crypto rows were deleted at a date that keeps a stock row and its
\* snapshot row, while another date still has holdings
C23_Witness ==
    /\ op.name = "delete_holdings_by_type"
    /\ op.types = {"crypto"}
    /\ op.result >= 1
    /\ \E h \in DOMAIN holdings : h.snapshot_date = op.from /\ h.type = "stock"
    /\ SnapshotsAt(snapshots, op.from) # {}
    /\ HoldingDates(holdings) # {op.from}

----------------------------------------------------------------------------
\* C24.  When the existing snapshot of the month is dated new_date or later
\* (old_date = final_date), the merge deletes the holdings of the covered
\* types at old_date, leaves the holdings of the other types at old_date
\* untouched, deletes only the snapshot row at old_date, writes the batch at
\* old_date (not at new_date) and returns migrated = 0 and
\* final_date = old_date.
C24_ReplaceInPlace ==
    [][ (/\ MergeStep
         /\ call'.old_date # None
         /\ call'.old_date >= call'.new_date) =>
          LET old_date == call'.old_date
              new_date == call'.new_date
              types    == call'.types
          IN  /\ old_date \in SnapshotDates(snapshots)
              /\ SameMonth(old_date, new_date)
              /\ call'.final_date = old_date
              /\ call'.migrated = 0
              /\ HoldingsAt(holdings', old_date)
                   = UncoveredAt(holdings, old_date, types)
                       (+) FrameBag(call'.df, old_date)
              /\ \A e \in (HoldingDates(holdings) \cup HoldingDates(holdings'))
                            \ {old_date} :
                   HoldingsAt(holdings', e) = HoldingsAt(holdings, e)
              /\ snapshots' = snapshots \ SnapshotsAt(snapshots, old_date)
              /\ upload_logs' = upload_logs ]_vars

\* a crypto batch dated earlier in the month than the existing snapshot:
\* the old crypto row was deleted, the stock row stayed, the batch sits at
\* old_date and nothing is at new_date
C24_Witness ==
    /\ Merged
    /\ call.old_date # None
    /\ call.old_date > call.new_date
    /\ call.types = {"crypto"}
    /\ call.deleted >= 1
    /\ call.new_count >= 1
    /\ call.migrated = 0
    /\ call.final_date = call.old_date
    /\ HoldingsAt(holdings, call.new_date) = EmptyBag
    /\ \E h \in DOMAIN holdings : h.snapshot_date = call.old_date /\ h.type = "stock"
    /\ \E h \in DOMAIN holdings : h.snapshot_date = call.old_date /\ h.type = "crypto"
    /\ SnapshotsAt(snapshots, call.old_date) = {}

----------------------------------------------------------------------------
\* C25.  The merge never inserts a snapshot row: from a state with at most
\* one snapshot per month, when the merge returns there is no snapshot row in
\* the calendar month of new_date (the stale one, if any, was deleted), and
\* a snapshot row at final_date exists again only after the caller's
\* save_snapshot step.
C25_MergeWritesNoSnapshot ==
    [][ /\ (MergeStep /\ OneSnapshotPerMonth(snapshots)) =>
             /\ snapshots' \subseteq snapshots
             /\ \A s \in snapshots' :
                  ~SameMonth(s.snapshot_date, call'.new_date)
             /\ SnapshotsAt(snapshots', call'.final_date) = {}
        /\ (Merged /\ pc' = "merged") =>
             SnapshotsAt(snapshots', call.final_date) = {}
        /\ (Merged /\ pc' = "idle") =>
             /\ snapshots \subseteq snapshots'
             /\ SnapshotDates(snapshots') = SnapshotDates(snapshots)
                                              \cup {call.final_date}
             /\ Cardinality(SnapshotsAt(snapshots', call.final_date)) = 1 ]_vars

\* a merge into a month that had a snapshot has returned: the batch is
\* stored at final_date and the month has no snapshot row
C25_Witness ==
    /\ Merged
    /\ call.old_date # None
    /\ call.new_count >= 1
    /\ upload_logs = 1
    /\ HoldingsAt(holdings, call.final_date) # EmptyBag
    /\ \A s \in snapshots : ~SameMonth(s.snapshot_date, call.new_date)

----------------------------------------------------------------------------
\* C26.  Over any sequence of completed merge-and-handoff calls from an empty
\* store, the snapshot date of a calendar month never moves backwards: a
\* merge into a month whose snapshot is at d ends with the month's snapshot
\* at a date >= d, and after every completed call the month's snapshot date
\* is the maximum new_date ever merged into the month.
C26_SnapshotDateMonotone ==
    [][ /\ MergeStep =>
             \A s \in snapshots :
               SameMonth(s.snapshot_date, call'.new_date)
                 => call'.final_date >= s.snapshot_date
        /\ (Merged /\ pc' = "idle") =>
             /\ SnapshotsAt(snapshots', call.final_date) # {}
             /\ \A d \in SnapshotDates(snapshots') \ {call.final_date} :
                  ~SameMonth(d, call.final_date)
        /\ pc' = "idle" =>
             SnapshotDates(snapshots') = MonthMax(merged_dates') ]_vars

\* two completed calls merged 2024-12-03 and 2024-12-15 into December: the
\* month's only snapshot is at 2024-12-15 and holds both batches' rows
C26_Witness ==
    /\ pc = "idle"
    /\ upload_logs = 2
    /\ merged_dates = {20241203, 20241215}
    /\ SnapshotDates(snapshots) = {20241215}
    /\ HoldingDates(holdings) = {20241215}
    /\ BagCardinality(holdings) >= 2

----------------------------------------------------------------------------
\* C27.  A merge changes nothing outside the calendar month of new_date:
\* every holding and every snapshot row whose date lies in another calendar
\* month is unchanged by merge_holdings_within_month, and the upload logs are
\* unchanged.  (The wallet table has no counterpart in the model.)
C27_OtherMonthsUntouched ==
    [][ MergeStep =>
          LET new_date == call'.new_date
          IN  /\ \A h \in DOMAIN holdings \cup DOMAIN holdings' :
                   ~SameMonth(h.snapshot_date, new_date) =>
                     /\ h \in DOMAIN holdings
                     /\ h \in DOMAIN holdings'
                     /\ holdings'[h] = holdings[h]
              /\ \A s \in snapshots \cup snapshots' :
                   ~SameMonth(s.snapshot_date, new_date) =>
                     s \in snapshots /\ s \in snapshots'
              /\ upload_logs' = upload_logs ]_vars

\* a December merge superseded rows and deleted the month's latest snapshot
\* while January's saved holdings and snapshot row are still there
C27_Witness ==
    /\ Merged
    /\ SameMonth(call.new_date, 20241201)
    /\ call.old_date # None
    /\ call.deleted + call.migrated >= 1
    /\ HoldingsAt(holdings, 20250102) # EmptyBag
    /\ SnapshotsAt(snapshots, 20250102) # {}
    /\ SnapshotsAt(snapshots, call.old_date) = {}

----------------------------------------------------------------------------
\* C28.  Conservation: from a state with one snapshot per month (no two
\* snapshot rows in a month, a snapshot row for every holdings date), after a
\* merge the holdings in the calendar month of new_date are exactly the
\* pre-existing holdings of the month whose type is not covered plus the new
\* batch, all stamped final_date: no uncovered row is lost, no covered row of
\* the old snapshot survives, none is duplicated; the returned migrated count
\* is the number of preserved rows when the date moved and 0 when
\* old_date = final_date, even if rows were preserved.
C28_Conservation ==
    [][ (/\ MergeStep
         /\ OneSnapshotPerMonth(snapshots)
         /\ OneSnapshotPerHoldingDate(holdings, snapshots)) =>
          LET new_date   == call'.new_date
              final_date == call'.final_date
              types      == call'.types
              before     == MonthHoldings(holdings, new_date)
              after      == MonthHoldings(holdings', new_date)
              preserved  == Where(before, { h \in DOMAIN before :
                                              h.type \notin types })
              moved      == \E s \in snapshots :
                              /\ SameMonth(s.snapshot_date, new_date)
                              /\ s.snapshot_date # final_date
          IN  /\ HoldingDates(after) \subseteq {final_date}
              /\ ValuesBag(after)
                   = ValuesBag(preserved) (+) ValuesBag(FrameBag(call'.df, final_date))
              /\ BagCardinality(after)
                   = BagCardinality(preserved) + Len(call'.df)
              /\ call'.migrated = IF moved THEN BagCardinality(preserved) ELSE 0 ]_vars

\* a two-row crypto batch merged later in a month that held a stock and a
\* crypto row: the stock row was kept and counted, the crypto row replaced,
\* and the month's three rows all sit at final_date
C28_Witness ==
    /\ Merged
    /\ call.old_date # None
    /\ call.old_date < call.final_date
    /\ call.types = {"crypto"}
    /\ SeqTypes(call.df) = {"crypto"}
    /\ call.new_count = 2
    /\ call.deleted = 1
    /\ call.migrated = 1
    /\ HoldingDates(MonthHoldings(holdings, call.new_date)) = {call.final_date}
    /\ BagCardinality(MonthHoldings(holdings, call.new_date)) = 3

----------------------------------------------------------------------------
\* C29.  The merge reconciles only the most recent snapshot of the month: if
\* the store holds two snapshot rows in one calendar month (the Upload page's
\* save path checks the exact date only), a merge into that month re-dates
\* or deletes holdings and deletes the snapshot row of the latest date only,
\* and leaves the earlier snapshot row and its holdings unchanged.
C29_OnlyLatestReconciled ==
    [][ MergeStep =>
          LET new_date == call'.new_date
              inMonth  == { d \in SnapshotDates(snapshots) : SameMonth(d, new_date) }
          IN  Cardinality(inMonth) >= 2 =>
                LET latest == SetMax(inMonth)
                IN  /\ call'.old_date = latest
                    /\ call'.final_date = Max(latest, new_date)
                    /\ SnapshotsAt(snapshots', latest) = {}
                    /\ snapshots' = snapshots \ SnapshotsAt(snapshots, latest)
                    /\ \A d \in inMonth \ {latest} :
                         /\ SnapshotsAt(snapshots', d) = SnapshotsAt(snapshots, d)
                         /\ HoldingsAt(holdings', d) = HoldingsAt(holdings, d)
                    /\ HoldingsAt(holdings', call'.final_date)
                         = ReDate(UncoveredAt(holdings, latest, call'.types),
                                  latest, call'.final_date)
                             (+) FrameBag(call'.df, call'.final_date) ]_vars

\* December has snapshots at the 3rd and the 15th; a stock batch dated the
\* 3rd superseded the rows of the 15th and was written there, the snapshot
\* of the 15th is gone, the snapshot and holdings of the 3rd are in place
C29_Witness ==
    /\ Merged
    /\ call.new_date = 20241203
    /\ call.old_date = 20241215
    /\ call.final_date = 20241215
    /\ call.types = {"stock"}
    /\ call.deleted >= 1
    /\ call.new_count >= 1
    /\ SnapshotsAt(snapshots, 20241215) = {}
    /\ SnapshotsAt(snapshots, 20241203) # {}
    /\ HoldingsAt(holdings, 20241203) # EmptyBag
    /\ HoldingsAt(holdings, 20241215) = FrameBag(call.df, 20241215)

----------------------------------------------------------------------------
\* C30.  The Upload page's replace flow for a date D that already has a
\* snapshot deletes only the holdings at D of the uploaded types, keeps the
\* holdings at D of all other types, writes the new holdings at D, and ends
\* with exactly one snapshot row at D whose total_value is the sum of
\* current_value over all holdings then at D (kept plus new).
C30_UploadReplace ==
    [][ \A D \in Dates, combined_df \in UploadBatches, b \in BenchmarkOutcomes :
          UploadReplace(D, combined_df, b[1], b[2]) =>
            LET kept == UncoveredAt(holdings, D, SeqTypes(combined_df))
            IN  /\ SnapshotsAt(snapshots, D) # {}
                /\ HoldingsAt(holdings', D) = kept (+) FrameBag(combined_df, D)
                /\ \A e \in (HoldingDates(holdings) \cup HoldingDates(holdings'))
                              \ {D} :
                     HoldingsAt(holdings', e) = HoldingsAt(holdings, e)
                /\ Cardinality(SnapshotsAt(snapshots', D)) = 1
                /\ \A s \in SnapshotsAt(snapshots', D) :
                     /\ s.total_value
                          = SumCol(HoldingsAt(holdings', D), "current_value")
                     /\ s.total_value
                          = SumCol(kept, "current_value")
                              + SumSeq(combined_df, "current_value")
                /\ \A s \in snapshots \cup snapshots' :
                     s.snapshot_date # D => s \in snapshots /\ s \in snapshots' ]_vars

\* a stock file replaced at a date where the crypto page had stored a crypto
\* row: the crypto row is kept beside the new stock row and the Upload
\* page's snapshot row (crypto_value at its default) totals both
C30_Witness ==
    /\ pc = "idle"
    /\ net_at = "saved"
    /\ upload_logs = 2
    /\ \E D \in Dates :
         /\ HoldingDates(holdings) = {D}
         /\ BagCardinality(holdings) = 2
         /\ \E h \in DOMAIN holdings : h.type = "crypto" /\ h.current_value = 500
         /\ \E h \in DOMAIN holdings : h.type = "stock" /\ h.current_value = 1000
         /\ Cardinality(snapshots) = 1
         /\ \A s \in snapshots :
              /\ s.snapshot_date = D
              /\ s.total_value = 1500
              /\ s.crypto_value = 0

=============================================================================
